---------------------------- MODULE Spec2Model ----------------------------
(***************************************************************************)
(* Model of src/main.py: the grading script of the ISGlobal MGH            *)
(* biostatistics data-management homework.  The script fetches the master  *)
(* data dictionary with the first API token, evaluates every token's       *)
(* project against it, downloads each project's dictionary, joins the      *)
(* number of data quality rules per project and writes two CSV reports.    *)
(*                                                                         *)
(* Spec    : the whole run of the __main__ block, one action per call.     *)
(* SpecPct : the pure function compute_completion_pct on bounded inputs.   *)
(***************************************************************************)
EXTENDS Integers, Sequences, FiniteSets, TLC

(* ------------------------------ bounds --------------------------------- *)

\* Number of entries of tokens.API_TOKEN_20 (the first one is the master's).
NumTokens == 2

\* Longest data dictionary a project of the run holds.
MaxFields == 2

\* Largest number of rows of the redcap_data_quality_rules table.
MaxRules == 2

\* Longest field-name list handed to compute_completion_pct in SpecPct.
MaxLen == 3

(* ------------------------------ domains -------------------------------- *)

\* Field names of the projects of the run.
RunNames == {"age", "sex"}

\* Field names handed to compute_completion_pct in SpecPct.
FieldNames == {"age", "sex", "weight"}

SeqsUpTo(S, n) == UNION {[1..k -> S] : k \in 0..n}

\* The data dictionaries (field-name lists in API order, duplicates not
\* excluded) a project of the run may hold.
Dictionaries == SeqsUpTo(RunNames, MaxFields)

Tokens == 1..NumTokens

\* Project ids of the rules table: the evaluated projects and one project
\* that no token of the list belongs to.
TableProjectIds == 1..(NumTokens + 1)

\* A rules table: rows in table order, rule_id the primary key.
RuleTables ==
    UNION {{[k \in 1..n |-> [rule_id |-> k, project_id |-> f[k]]] :
                f \in [1..n -> TableProjectIds]} : n \in 0..MaxRules}

(* --------------------------- pure functions ---------------------------- *)

\* set(lst)
ToSet(lst) == {lst[k] : k \in 1..Len(lst)}

RECURSIVE Gcd(_, _)
Gcd(a, b) == IF b = 0 THEN a ELSE Gcd(b, a % b)

\* The value of the true division n / d (d > 0), as the fraction in lowest
\* terms: two divisions give the same float exactly when these are equal.
Quotient(n, d) == LET g == Gcd(n, d) IN <<n \div g, d \div g>>

\* What a call does: it returns a value or raises an exception.
Returns(v) == [raised |-> "none", value |-> v]
Raises(e)  == [raised |-> e, value |-> <<0, 0>>]

\* n / d of Python: ZeroDivisionError when d = 0.
TrueDiv(n, d) == IF d = 0 THEN Raises("ZeroDivisionError") ELSE Returns(Quotient(n, d))

compute_completion_pct_guarded(master_dic_arg, student_dic_arg) ==
    LET correct_fields == ToSet(master_dic_arg) \cap ToSet(student_dic_arg)
    IN  IF Len(master_dic_arg) = 0
        THEN Returns(Quotient(0, 1))
        ELSE TrueDiv(Cardinality(correct_fields), Len(master_dic_arg))

compute_completion_pct_all_fields(master_dic_arg, student_dic_arg) ==
    TrueDiv(Len(student_dic_arg), Len(master_dic_arg))

compute_completion_pct_missing(master_dic_arg, student_dic_arg) ==
    LET missing_fields == ToSet(master_dic_arg) \ ToSet(student_dic_arg)
    IN  TrueDiv(Cardinality(missing_fields), Len(master_dic_arg))

compute_completion_pct_over_student(master_dic_arg, student_dic_arg) ==
    LET correct_fields == ToSet(master_dic_arg) \cap ToSet(student_dic_arg)
    IN  TrueDiv(Cardinality(correct_fields), Len(student_dic_arg))

\* compute_completion_pct:
\*     correct_fields = set(master_data_dic) & set(student_data_dic)
\*     return len(correct_fields) / len(master_data_dic)
compute_completion_pct(master_dic_arg, student_dic_arg) ==
    LET correct_fields == ToSet(master_dic_arg) \cap ToSet(student_dic_arg)
    IN  TrueDiv(Cardinality(correct_fields), Len(master_dic_arg))

value_counts_distinct(column) ==
    [pid \in ToSet(column) |-> 1]

\* Series.value_counts() of the project_id column: one entry per distinct
\* project id, its value the number of rows tallied for it.
RECURSIVE value_counts(_)
value_counts(column) ==
    IF column = <<>> THEN <<>>
    ELSE LET rest == value_counts(Tail(column))
             pid  == Head(column)
         IN  IF pid \in DOMAIN rest
             THEN [rest EXCEPT ![pid] = @ + 1]
             ELSE rest @@ (pid :> 1)

\* rules['project_id']
ProjectIdColumn(table) == [k \in 1..Len(table) |-> table[k].project_id]

\* grades_df.loc[grades_df.project_id == pid, 'number_of_dqr'] = number_of_dqr
SetDqr(df, pid, number_of_dqr) ==
    [k \in 1..Len(df) |->
        IF df[k].project_id = pid
        THEN [df[k] EXCEPT !.number_of_dqr = number_of_dqr]
        ELSE df[k]]

\* for pid, number_of_dqr in counts.items(): the loop of the join, over the
\* entries of counts that are still to be visited.
RECURSIVE JoinLoop(_, _, _)
JoinLoop(df, cnts, todo) ==
    IF todo = {} THEN df
    ELSE LET pid == CHOOSE p \in todo : TRUE
         IN  JoinLoop(SetDqr(df, pid, cnts[pid]), cnts, todo \ {pid})

JoinCounts_inner(df, cnts) ==
    SelectSeq(JoinLoop(df, cnts, DOMAIN cnts),
              LAMBDA row : row.project_id \in DOMAIN cnts)

\* The join of lines 191-192.
JoinCounts(df, cnts) == JoinLoop(df, cnts, DOMAIN cnts)

\* pandas.DataFrame(grades, columns=df_columns); grades_df["number_of_dqr"] = 0
BuildFrame(rows) ==
    [k \in 1..Len(rows) |->
        [project_id        |-> rows[k].project_id,
         project_name      |-> rows[k].project_name,
         number_of_fields  |-> rows[k].number_of_fields,
         completion_pct    |-> rows[k].completion_pct,
         number_of_records |-> rows[k].number_of_records,
         number_of_dqr     |-> 0]]

\* grades_df.project_id
FrameProjectIds(df) == {df[k].project_id : k \in 1..Len(df)}

StudentRules_unfiltered(table, df) == table

\* rules[rules.project_id.isin(grades_df.project_id)]
StudentRules(table, df) ==
    SelectSeq(table, LAMBDA rule : rule.project_id \in FrameProjectIds(df))

append_front(lst, row) == <<row>> \o lst

\* grades.append(student_eval)
append(lst, row) == Append(lst, row)

(* ------------------------- the REDCap server ---------------------------- *)

\* export_project_info()['project_id'] of the project of token t: one
\* project per token.
ProjectId(t) == t

\* export_project_info()['project_title'] of the project of token t.
ProjectTitle(t) == "project_" \o ToString(t)

\* len(export_records()) of the project of token t.
RecordCount(t) == t - 1

\* export_metadata(format='csv') of a project whose dictionary is d.
CsvOf(d) == <<"csv", d>>

\* "downloads/" + project_name + ".csv"
DictionaryFile(title) == "downloads/" \o title \o ".csv"

GradesFile == "downloads/mgh_2020_grades.csv"
DqrFile == "downloads/mgh_2020_dqr.csv"

(* ------------------------------- state --------------------------------- *)

VARIABLES
    server_dic,        \* token -> data dictionary of its project on the server
    pc,                \* the statement the run is at (where it stopped, on an error)
    error,             \* the uncaught exception that ended the run, or "none"
    calls,             \* call site -> number of times the call was issued
    master_dic,        \* module-level master_dic
    i,                 \* position of api_token in tokens.API_TOKEN_20 (1-based)
    grades,            \* module-level grades
    project_id,        \* locals of compute_student_performance
    project_name,
    student_dic,
    number_of_fields,
    completion_pct,
    dic,               \* locals of download_data_dictionary
    dl_project_name,
    grades_df,         \* module-level grades_df
    rules,             \* module-level rules
    counts,            \* module-level counts
    files,             \* file name -> content, the files the run has written
    master_data_dic,   \* SpecPct: the arguments and the outcome of one call
    student_data_dic,  \*          of compute_completion_pct
    result

perfVars == <<project_id, project_name, student_dic, number_of_fields,
              completion_pct>>
dlVars   == <<dic, dl_project_name>>
joinVars == <<grades_df, rules, counts>>
pctVars  == <<master_data_dic, student_data_dic, result>>

\* The state of the run apart from pc, error and calls.
dataVars == <<server_dic, master_dic, i, grades, perfVars, dlVars, joinVars,
              files, pctVars>>

vars == <<pc, error, calls, dataVars>>

\* A name that is not bound yet holds a value of its type; pc tells which
\* names are bound.
NoPerf ==
    /\ project_id = 0 /\ project_name = "" /\ student_dic = <<>>
    /\ number_of_fields = 0 /\ completion_pct = <<0, 1>>
NoDl     == dic = CsvOf(<<>>) /\ dl_project_name = ""
NoJoin   == grades_df = <<>> /\ rules = <<>> /\ counts = <<>>
NoPct    ==
    /\ master_data_dic = <<>> /\ student_data_dic = <<>>
    /\ result = Raises("not called")

Init ==
    /\ server_dic \in [Tokens -> Dictionaries]
    /\ pc = "get_master"
    /\ error = "none"
    /\ calls = <<>>
    /\ master_dic = <<>>
    /\ i = 1
    /\ grades = <<>>
    /\ NoPerf /\ NoDl /\ NoJoin /\ NoPct
    /\ files = <<>>

\* One more issue of the call at `site`.
Issue(site) ==
    IF site \in DOMAIN calls
    THEN [calls EXCEPT ![site] = @ + 1]
    ELSE calls @@ (site :> 1)

\* open(name, 'w') ... write(content) / to_csv(name): the file is created or
\* replaced.
WriteFile(name, content) ==
    IF name \in DOMAIN files
    THEN [files EXCEPT ![name] = content]
    ELSE files @@ (name :> content)

Raise_after_report(e) ==
    /\ error' = e
    /\ files' = WriteFile(GradesFile, BuildFrame(grades))
    /\ UNCHANGED <<pc, server_dic, master_dic, i, grades, perfVars, dlVars,
                   joinVars, pctVars>>

\* An exception nothing catches: the interpreter ends the run at the
\* statement that raised it.
Raise(e) ==
    /\ error' = e
    /\ UNCHANGED <<pc, dataVars>>

Running(at) == pc = at /\ error = "none"

\* compute_student_performance returned: its locals are gone.
ReturnPerf ==
    /\ project_id' = 0 /\ project_name' = "" /\ student_dic' = <<>>
    /\ number_of_fields' = 0 /\ completion_pct' = <<0, 1>>

\* download_data_dictionary returned: its locals are gone.
ReturnDl == dic' = CsvOf(<<>>) /\ dl_project_name' = ""

(* ------------------------------ the run --------------------------------- *)

\* line 173: master_dic = get_data_dictionary(URL, tokens.API_TOKEN_20[0]);
\* line 175: grades = []; line 176: the first api_token.
GetMaster ==
    /\ Running("get_master")
    /\ calls' = Issue(<<0, "export_metadata">>)
    /\ \/ /\ master_dic' = server_dic[1]
          /\ pc' = "get_project_id"
          /\ UNCHANGED <<error, server_dic, i, grades, perfVars, dlVars,
                         joinVars, files, pctVars>>
       \/ Raise("APIError")

\* line 137: project_id = get_project_id(url, token)
GetProjectId ==
    /\ Running("get_project_id")
    /\ calls' = Issue(<<i, "get_project_id">>)
    /\ \/ /\ project_id' = ProjectId(i)
          /\ pc' = "get_project_name"
          /\ UNCHANGED <<error, server_dic, master_dic, i, grades,
                         project_name, student_dic, number_of_fields,
                         completion_pct, dlVars, joinVars, files, pctVars>>
       \/ Raise("APIError")

\* line 138: project_name = get_project_name(url, token)
GetProjectName ==
    /\ Running("get_project_name")
    /\ calls' = Issue(<<i, "get_project_name">>)
    /\ \/ /\ project_name' = ProjectTitle(i)
          /\ pc' = "get_data_dictionary"
          /\ UNCHANGED <<error, server_dic, master_dic, i, grades,
                         project_id, student_dic, number_of_fields,
                         completion_pct, dlVars, joinVars, files, pctVars>>
       \/ Raise("APIError")

GetDataDictionary_reuses_master ==
    /\ Running("get_data_dictionary")
    /\ calls' = Issue(<<i, "get_data_dictionary">>)
    /\ \/ /\ student_dic' = server_dic[i]
          /\ master_dic' = server_dic[i]
          /\ number_of_fields' = Len(server_dic[i])
          /\ pc' = "compute_completion_pct"
          /\ UNCHANGED <<error, server_dic, i, grades, project_id,
                         project_name, completion_pct, dlVars, joinVars,
                         files, pctVars>>
       \/ Raise("APIError")

\* lines 139-140: student_dic = get_data_dictionary(url, token);
\* number_of_fields = len(student_dic)
GetDataDictionary ==
    /\ Running("get_data_dictionary")
    /\ calls' = Issue(<<i, "get_data_dictionary">>)
    /\ \/ /\ student_dic' = server_dic[i]
          /\ number_of_fields' = Len(server_dic[i])
          /\ pc' = "compute_completion_pct"
          /\ UNCHANGED <<error, server_dic, master_dic, i, grades,
                         project_id, project_name, completion_pct, dlVars,
                         joinVars, files, pctVars>>
       \/ Raise("APIError")

\* line 141: completion_pct = compute_completion_pct(master_dic, student_dic)
ComputeCompletionPct ==
    /\ Running("compute_completion_pct")
    /\ LET r == compute_completion_pct(master_dic, student_dic)
       IN  IF r.raised = "none"
           THEN /\ completion_pct' = r.value
                /\ pc' = "get_number_of_records"
                /\ UNCHANGED <<error, calls, server_dic, master_dic, i, grades,
                               project_id, project_name, student_dic,
                               number_of_fields, dlVars, joinVars, files,
                               pctVars>>
           ELSE Raise(r.raised) /\ UNCHANGED calls

\* The row compute_student_performance returns (line 144).
Evaluation(records) ==
    [project_id        |-> project_id,
     project_name      |-> project_name,
     number_of_fields  |-> number_of_fields,
     completion_pct    |-> completion_pct,
     number_of_records |-> records]

\* lines 142-146 and 179: number_of_records = get_number_of_records(url, token);
\* the evaluation is returned and appended to grades.
GetNumberOfRecords ==
    /\ Running("get_number_of_records")
    /\ calls' = Issue(<<i, "get_number_of_records">>)
    /\ \/ /\ grades' = append(grades, Evaluation(RecordCount(i)))
          /\ ReturnPerf
          /\ pc' = "export_metadata_csv"
          /\ UNCHANGED <<error, server_dic, master_dic, i, dlVars, joinVars,
                         files, pctVars>>
       \/ Raise("APIError")

\* lines 113-114: dic = project.export_metadata(format='csv')
ExportMetadataCsv ==
    /\ Running("export_metadata_csv")
    /\ calls' = Issue(<<i, "export_metadata_csv">>)
    /\ \/ /\ dic' = CsvOf(server_dic[i])
          /\ pc' = "download_get_project_name"
          /\ UNCHANGED <<error, server_dic, master_dic, i, grades, perfVars,
                         dl_project_name, joinVars, files, pctVars>>
       \/ Raise("APIError")

\* line 116: project_name = get_project_name(url, token)
DownloadGetProjectName ==
    /\ Running("download_get_project_name")
    /\ calls' = Issue(<<i, "download_get_project_name">>)
    /\ \/ /\ dl_project_name' = ProjectTitle(i)
          /\ pc' = "write_dictionary"
          /\ UNCHANGED <<error, server_dic, master_dic, i, grades, perfVars,
                         dic, joinVars, files, pctVars>>
       \/ Raise("APIError")

\* lines 117-119: the dictionary is written to downloads/<title>.csv; then
\* line 176: the next api_token, or the end of the loop.
WriteDictionary ==
    /\ Running("write_dictionary")
    /\ calls' = Issue(<<i, "write_dictionary">>)
    /\ \/ /\ files' = WriteFile(DictionaryFile(dl_project_name), dic)
          /\ ReturnDl
          /\ i' = i + 1
          /\ pc' = IF i + 1 <= NumTokens THEN "get_project_id" ELSE "build_frame"
          /\ UNCHANGED <<error, server_dic, master_dic, grades, perfVars,
                         joinVars, pctVars>>
       \/ Raise("OSError")

\* lines 184-188: grades_df = pandas.DataFrame(grades, columns=df_columns);
\* grades_df["number_of_dqr"] = 0
BuildGradesFrame ==
    /\ Running("build_frame")
    /\ grades_df' = BuildFrame(grades)
    /\ pc' = "read_rules"
    /\ UNCHANGED <<error, calls, server_dic, master_dic, i, grades, perfVars,
                   dlVars, rules, counts, files, pctVars>>

\* lines 189-192: rules = get_all_data_quality_rules(...);
\* counts = rules['project_id'].value_counts(); the join into grades_df.
ReadAndJoinRules ==
    /\ Running("read_rules")
    /\ calls' = Issue(<<0, "read_sql">>)
    /\ \/ \E table \in RuleTables :
            /\ rules' = table
            /\ counts' = value_counts(ProjectIdColumn(table))
            /\ grades_df' = JoinCounts(grades_df,
                                       value_counts(ProjectIdColumn(table)))
            /\ pc' = "write_grades"
            /\ UNCHANGED <<error, server_dic, master_dic, i, grades, perfVars,
                           dlVars, files, pctVars>>
       \/ Raise("DBError")

\* lines 194-197: print(grades_df); grades_df.to_csv(".../mgh_2020_grades.csv")
WriteGrades ==
    /\ Running("write_grades")
    /\ calls' = Issue(<<0, "write_grades">>)
    /\ \/ /\ files' = WriteFile(GradesFile, grades_df)
          /\ pc' = "write_dqr"
          /\ UNCHANGED <<error, server_dic, master_dic, i, grades, perfVars,
                         dlVars, joinVars, pctVars>>
       \/ Raise("OSError")

\* lines 199-200: student_rules = rules[rules.project_id.isin(...)];
\* student_rules.to_csv(".../mgh_2020_dqr.csv")
WriteDqr ==
    /\ Running("write_dqr")
    /\ calls' = Issue(<<0, "write_dqr">>)
    /\ \/ /\ files' = WriteFile(DqrFile, StudentRules(rules, grades_df))
          /\ pc' = "done"
          /\ UNCHANGED <<error, server_dic, master_dic, i, grades, perfVars,
                         dlVars, joinVars, pctVars>>
       \/ Raise("OSError")

Next ==
    \/ GetMaster
    \/ GetProjectId
    \/ GetProjectName
    \/ GetDataDictionary
    \/ ComputeCompletionPct
    \/ GetNumberOfRecords
    \/ ExportMetadataCsv
    \/ DownloadGetProjectName
    \/ WriteDictionary
    \/ BuildGradesFrame
    \/ ReadAndJoinRules
    \/ WriteGrades
    \/ WriteDqr

Spec == Init /\ [][Next]_vars

(* ------------------- compute_completion_pct on its own ------------------ *)

InitPct ==
    /\ master_data_dic \in SeqsUpTo(FieldNames, MaxLen)
    /\ student_data_dic \in SeqsUpTo(FieldNames, MaxLen)
    /\ result = Raises("not called")
    /\ server_dic = [t \in Tokens |-> <<>>]
    /\ pc = "compute_completion_pct"
    /\ error = "none"
    /\ calls = <<>>
    /\ master_dic = <<>>
    /\ i = 1
    /\ grades = <<>>
    /\ NoPerf /\ NoDl /\ NoJoin
    /\ files = <<>>

\* One call of compute_completion_pct(master_data_dic, student_data_dic).
CallComputeCompletionPct ==
    /\ result = Raises("not called")
    /\ result' = compute_completion_pct(master_data_dic, student_data_dic)
    /\ UNCHANGED <<pc, error, calls, server_dic, master_dic, i, grades,
                   perfVars, dlVars, joinVars, files, master_data_dic,
                   student_data_dic>>

NextPct == CallComputeCompletionPct

SpecPct == InitPct /\ [][NextPct]_vars

(* ------------------------------ properties ------------------------------ *)

\* The field name n occurs in the list lst.
Occurs(n, lst) == \E k \in 1..Len(lst) : lst[k] = n

\* No field name occurs twice in lst.
NoDuplicates(lst) ==
    \A k1, k2 \in 1..Len(lst) : lst[k1] = lst[k2] => k1 = k2

\* The fraction q = <<numerator, denominator>> has the value n / d.
HasValue(q, n, d) == q[2] > 0 /\ q[1] * d = n * q[2]

RECURSIVE SumOver(_, _)
SumOver(f, S) ==
    IF S = {} THEN 0
    ELSE LET x == CHOOSE y \in S : TRUE IN f[x] + SumOver(f, S \ {x})

\* The rows of the table that belong to project pid.
RowsOf(table, pid) == {k \in 1..Len(table) : table[k].project_id = pid}

\* The project ids of the tokens of the list.
EvaluatedProjectIds == {ProjectId(t) : t \in Tokens}

MasterAssigned == pc # "get_master"
RulesRead == pc \in {"write_grades", "write_dqr", "done"}
Failed == error # "none"

\* C1: for a non-empty master list M and any student list S,
\* compute_completion_pct(M, S) returns the quotient of the number of
\* field names common to M and S by the number of entries of M, a value in
\* [0, 1]; M = (age, sex, weight), S = (age, sex) gives 2/3.
C1_PctIsCommonOverMaster ==
    (result.raised # "not called" /\ Len(master_data_dic) > 0) =>
        /\ result.raised = "none"
        /\ HasValue(result.value,
                    Cardinality({n \in FieldNames :
                                    Occurs(n, master_data_dic)
                                    /\ Occurs(n, student_data_dic)}),
                    Len(master_data_dic))
        /\ 0 <= result.value[1] /\ result.value[1] <= result.value[2]
        /\ (master_data_dic = <<"age", "sex", "weight">>
            /\ student_data_dic = <<"age", "sex">>
                => result.value = <<2, 3>>)

C1_Witness ==
    /\ master_data_dic = <<"age", "sex", "weight">>
    /\ student_data_dic = <<"age", "sex">>
    /\ result = Returns(<<2, 3>>)

\* C2 as stated: for every non-empty master list M,
\* compute_completion_pct(M, M) is 1.0, and the first row of the report
\* (the master's own project) has completion_pct 1.0.
C2_Original_SelfScoreIsOne ==
    /\ (pc = "get_number_of_records" /\ student_dic = master_dic)
          => completion_pct = <<1, 1>>
    /\ Len(grades) >= 1 => grades[1].completion_pct = <<1, 1>>

\* C2 amended: for every non-empty master list M in which no field name
\* occurs twice, compute_completion_pct(M, M) is 1.0, and the first row of
\* the report has completion_pct 1.0 when the master dictionary has no
\* duplicate; with duplicates the score is distinct names / entries.
C2_SelfScoreIsOneWithoutDuplicates ==
    /\ \A m \in Dictionaries :
          (Len(m) > 0 /\ NoDuplicates(m))
              => compute_completion_pct(m, m) = Returns(<<1, 1>>)
    /\ (Len(grades) >= 1 /\ NoDuplicates(master_dic))
          => grades[1].completion_pct = <<1, 1>>
    /\ Len(grades) >= 1
          => HasValue(grades[1].completion_pct,
                      Cardinality(ToSet(master_dic)), Len(master_dic))

C2_Witness ==
    /\ Len(grades) >= 1
    /\ Len(master_dic) = 2
    /\ NoDuplicates(master_dic)
    /\ grades[1].completion_pct = <<1, 1>>

\* C3: with an empty master dictionary compute_completion_pct raises
\* ZeroDivisionError for every student list, and the run ends while the
\* first token is processed: no row is appended and no file is written.
C3_EmptyMasterEndsRun ==
    /\ [](/\ \A s \in Dictionaries :
               compute_completion_pct(<<>>, s).raised = "ZeroDivisionError"
          /\ (MasterAssigned /\ master_dic = <<>>) =>
                /\ grades = <<>>
                /\ DOMAIN files = {}
                /\ i = 1
                /\ pc \in {"get_project_id", "get_project_name",
                           "get_data_dictionary", "compute_completion_pct"}
                /\ (pc = "compute_completion_pct" /\ Failed)
                       => error = "ZeroDivisionError")
    /\ [][(pc = "compute_completion_pct" /\ master_dic = <<>>)
              => error' = "ZeroDivisionError"]_vars

C3_Witness ==
    /\ pc = "compute_completion_pct"
    /\ error = "ZeroDivisionError"
    /\ master_dic = <<>>
    /\ grades = <<>>
    /\ DOMAIN files = {}

\* C4: after the join the report has one row per evaluated project, in
\* the rows' order, each with number_of_dqr equal to the number of rows of
\* the rules table with that project_id (0 when there is none); the join
\* changes no other column and neither removes nor adds a row; the table
\* (1, 1, 2) and the projects 1, 2, 3 give 2, 1, 0.
C4_JoinCountsRulesPerProject ==
    RulesRead =>
        /\ Len(grades_df) = NumTokens
        /\ \A k \in 1..NumTokens :
              /\ k <= Len(grades_df)
              /\ grades_df[k].project_id = ProjectId(k)
              /\ grades_df[k].number_of_dqr =
                     Cardinality(RowsOf(rules, ProjectId(k)))
              /\ [grades_df[k] EXCEPT !.number_of_dqr = 0]
                     = BuildFrame(grades)[k]
        /\ (ProjectIdColumn(rules) = <<1, 1, 2>> /\ NumTokens = 3)
              => /\ grades_df[1].number_of_dqr = 2
                 /\ grades_df[2].number_of_dqr = 1
                 /\ grades_df[3].number_of_dqr = 0

C4_Witness ==
    /\ RulesRead
    /\ Len(rules) = 2
    /\ \E k1, k2 \in 1..Len(grades_df) :
          grades_df[k1].number_of_dqr = 2 /\ grades_df[k2].number_of_dqr = 0

\* C5: the counts computed from the rules table have one entry per project
\* id of the table, evaluated or not, each the number of rows of that
\* project, and they sum to the number of rows of the table.
C5_CountsPartitionTheTable ==
    RulesRead =>
        /\ DOMAIN counts = {rules[k].project_id : k \in 1..Len(rules)}
        /\ \A pid \in DOMAIN counts :
              counts[pid] = Cardinality(RowsOf(rules, pid))
        /\ SumOver(counts, DOMAIN counts) = Len(rules)

C5_Witness ==
    /\ RulesRead
    /\ Len(rules) = 2
    /\ (NumTokens + 1) \in DOMAIN counts
    /\ counts[NumTokens + 1] = 2

\* C6: the rules file holds exactly the rows of the rules table whose
\* project_id is the project_id of a token of the list, each once and in
\* table order.
C6_DqrFileHoldsEvaluatedProjectsRules ==
    DqrFile \in DOMAIN files =>
        LET written == files[DqrFile]
            kept    == {k \in 1..Len(rules) :
                           rules[k].project_id \in EvaluatedProjectIds}
        IN  /\ Len(written) = Cardinality(kept)
            /\ {written[k] : k \in 1..Len(written)} = {rules[k] : k \in kept}
            /\ \A k1, k2 \in 1..Len(written) :
                  k1 < k2 => written[k1].rule_id < written[k2].rule_id

C6_Witness ==
    /\ DqrFile \in DOMAIN files
    /\ Len(rules) = 2
    /\ Len(files[DqrFile]) = 1
    /\ files[DqrFile][1] = rules[2]

ExternalSteps ==
    {"get_master", "get_project_id", "get_project_name",
     "get_data_dictionary", "get_number_of_records", "export_metadata_csv",
     "download_get_project_name", "write_dictionary", "read_rules"}

\* C8: no call is issued twice (a failure is never retried); a run that a
\* failing external call ended has written neither the grade table nor the
\* rules file; and the step that fails changes no file and no row, so the
\* dictionaries written for earlier tokens stay as they are and the run
\* stays where it failed.
C8_ExternalFailureIsFatal ==
    /\ [](/\ \A site \in DOMAIN calls : calls[site] <= 1
          /\ (Failed /\ pc \in ExternalSteps) =>
                /\ GradesFile \notin DOMAIN files
                /\ DqrFile \notin DOMAIN files)
    /\ [][error' # "none" =>
              /\ files' = files
              /\ grades' = grades
              /\ pc' = pc
              /\ error = "none"]_vars

C8_Witness ==
    /\ error = "APIError"
    /\ pc = "get_data_dictionary"
    /\ i = 2
    /\ DOMAIN files = {DictionaryFile(ProjectTitle(1))}
    /\ files[DictionaryFile(ProjectTitle(1))] = CsvOf(server_dic[1])

\* The tokens whose evaluation row has been appended.
RowsAppended ==
    IF pc \in {"export_metadata_csv", "download_get_project_name",
               "write_dictionary"}
    THEN i ELSE i - 1

\* C9: when k tokens have been evaluated grades has k rows, row j being
\* the row of token j (the first being the master's project); the grade
\* table is written only after every token has been processed and the
\* join has been applied, and holds one row per token in token order.
C9_OneRowPerTokenInOrder ==
    /\ Len(grades) = RowsAppended
    /\ \A j \in 1..Len(grades) :
          /\ grades[j].project_id = ProjectId(j)
          /\ grades[j].project_name = ProjectTitle(j)
          /\ grades[j].number_of_fields = Len(server_dic[j])
    /\ GradesFile \in DOMAIN files =>
          /\ pc \in {"write_dqr", "done"}
          /\ Len(grades) = NumTokens
          /\ \A t \in Tokens :
                DictionaryFile(ProjectTitle(t)) \in DOMAIN files
          /\ files[GradesFile] = grades_df
          /\ Len(files[GradesFile]) = NumTokens
          /\ \A j \in 1..NumTokens :
                /\ files[GradesFile][j].project_id = ProjectId(j)
                /\ files[GradesFile][j].number_of_dqr =
                       Cardinality(RowsOf(rules, ProjectId(j)))

C9_Witness ==
    /\ pc = "done"
    /\ Len(files[GradesFile]) = NumTokens
    /\ files[GradesFile][NumTokens].project_id = ProjectId(NumTokens)
    /\ files[GradesFile][NumTokens].number_of_dqr = 1

\* C10: once assigned, master_dic is the dictionary fetched with the first
\* token and no later step changes it; every row of a token is the score
\* of that token's own dictionary against it, whatever the other tokens'
\* projects hold.
C10_MasterFetchedOnceNeverChanged ==
    /\ [](/\ MasterAssigned => master_dic = server_dic[1]
          /\ \A k \in 1..Len(grades) :
                HasValue(grades[k].completion_pct,
                         Cardinality(ToSet(server_dic[1])
                                     \cap ToSet(server_dic[k])),
                         Len(server_dic[1])))
    /\ [][MasterAssigned => master_dic' = master_dic]_vars

C10_Witness ==
    /\ pc = "done"
    /\ master_dic = server_dic[1]
    /\ server_dic[NumTokens] # server_dic[1]
    /\ Len(grades) = NumTokens
    /\ grades[NumTokens].completion_pct = <<1, 2>>

=============================================================================
